---- MODULE Spec2Model ----
(***************************************************************************)
(* Model of VaLog.py: the incremental static-site generator.  One run is   *)
(* gen = VaLogGenerator() (load and migrate the cache) followed by         *)
(* gen.run() (list the sources, clean up removed articles, decide what to  *)
(* regenerate, render, save the cache, emit snapshot and home page).       *)
(* The file system (cache file, article directory, O-MD backups, the posts *)
(* directory) and the issue tracker are the environment.                   *)
(***************************************************************************)
EXTENDS Integers, Sequences, FiniteSets, TLC

\* ---------------------------------------------------------------- bounds
\* Number of external changes to the posts directory in one behaviour.
MaxEvents == 1

\* Number of invocations of the generator in one behaviour.
MaxRuns == 2

\* Article identifiers (issue numbers as strings / file names without .md).
Ids == {"1", "2"}

\* Stamps that occur in the initial cache file (equal to or different from
\* the initial stamp of the sources).
InitStamps == 1..2

Modes == {"issues_only", "local_only", "dual", "other"}

\* Label sets an issue can carry ("pinned" is special only when configured).
LabelSets == {{}, {"special"}, {"top"}, {"pinned"}}

\* ------------------------------------------------------------ variables
VARIABLES
    data_source_mode,   \* config.yml data_source_mode, lower-cased
    remoteOK,           \* REPO/GITHUB_TOKEN set and the API answers 2xx
    issues,             \* open issues of the tracker: id -> [open, updated_at]
    posts,              \* docs/posts/<id>.md: id -> [st, mtime]
    issue_fields,       \* the other fields of an issue: id -> [created_at,
                        \* labels, body]
    post_body,          \* content of docs/posts/<id>.md: id -> body
    special_tags,       \* config.yml special_tags
    special_view,       \* config.yml special.view: "absent", or present with
                        \* a Total_time that is "dated" or "undated"
    cacheFile,          \* O-MD/articles.json: id -> entry (possibly legacy)
    htmlFiles,          \* docs/article/<id>.html: id -> [state, type, stamp]
    omdFiles,           \* ids with a backup O-MD/<id>.md
    pc,                 \* position of the process
    cache,              \* self.cache
    all_issues,         \* run(): list returned by get_issues_articles
    all_local_articles, \* run(): list returned by get_local_files_articles
    remote_ids,
    local_ids,
    known_from_html,
    to_delete,
    to_process_issues,
    to_process_local,
    new_cache_updates,
    idx,                \* position of the render loops
    all_articles,       \* run(): the regular list
    specials,           \* run(): the special list
    current_mtime_iso,  \* history: the mtime re-read at lines 326-328; 0 when
                        \* the file was not listed or could not be accessed
    loaded,             \* history: the mapping read by json.load
    startCache,         \* history: self.cache as loaded (after migration)
    migrated,           \* history: ids migrated by the last load
    wroteHtml,          \* history: artifacts opened for writing in this run
    wroteOmd,           \* history: backups written in this run
    failed,             \* history: articles whose rendering/writing failed
    stable,             \* history: no external change since this run began
    repeat,             \* history: previous run completed and nothing
                        \* changed since that run began
    previous,           \* history: how the previous invocation ended
    runs,               \* history: number of invocations so far
    events              \* history: number of external changes so far

contentVars == <<issue_fields, post_body, special_tags, special_view>>
envVars == <<data_source_mode, remoteOK, issues, posts, contentVars>>
fsVars == <<cacheFile, htmlFiles, omdFiles>>
listVars == <<all_issues, all_local_articles, remote_ids, local_ids>>
planVars == <<known_from_html, to_delete, to_process_issues, to_process_local>>
indexVars == <<all_articles, specials>>
histVars == <<current_mtime_iso, loaded, startCache, migrated, wroteHtml,
             wroteOmd, failed, stable, repeat, previous, runs, events>>
vars == <<envVars, fsVars, pc, cache, listVars, planVars, new_cache_updates,
          idx, indexVars, histVars>>

\* --------------------------------------------------------------- values
NoEntry == [form |-> "none", type |-> "-", last_modified |-> 0]

LegacyEntry(s) == [form |-> "legacy", type |-> "-", last_modified |-> s]

DictEntry(t, s) == [form |-> "dict", type |-> t, last_modified |-> s]

NoHtml == [state |-> "none", type |-> "-", stamp |-> 0]

\* An artifact left by an earlier version or an earlier run.
OldHtml == [state |-> "full", type |-> "old", stamp |-> 0]

\* open(path, "w") succeeded, render() raised: the file exists and is empty.
PartialHtml == [state |-> "partial", type |-> "-", stamp |-> 0]

FullHtml(t, s) == [state |-> "full", type |-> t, stamp |-> s]

NoIssue == [open |-> FALSE, updated_at |-> 0]

OpenIssue(s) == [open |-> TRUE, updated_at |-> s]

\* st = "absent": no file; "broken": listed by os.listdir but
\* os.path.getmtime raises OSError; "ok": a readable file.
NoPost == [st |-> "absent", mtime |-> 0]

BrokenPost == [st |-> "broken", mtime |-> 0]

OkPost(m) == [st |-> "ok", mtime |-> m]

\* One line of an article body.  A metadata line reads
\* "!vml-<key><span><text></span>" (has_span) or "!vml-<key> <text>".
TextLine(t) == [vml |-> FALSE, key |-> "", has_span |-> FALSE, text |-> t]

MetaLine(k, t) == [vml |-> TRUE, key |-> k, has_span |-> TRUE, text |-> t]

BareMetaLine(k, t) == [vml |-> TRUE, key |-> k, has_span |-> FALSE, text |-> t]

\* A body is the sequence of its lines; the empty body has none.
EmptyBody == <<>>

PlainBody == <<TextLine("Hello world")>>

\* "!vml-s<span>Short summary</span>\n!vml-t<span>My Title</span>\nHello world"
ExampleBody ==
    <<MetaLine("s", "Short summary"), MetaLine("t", "My Title"),
      TextLine("Hello world")>>

KeyedBody ==
    <<MetaLine("summary", "Intro"), MetaLine("title", "Side"),
      TextLine("Hello world")>>

\* A metadata line without inline markup.
BareBody == <<BareMetaLine("summary", "Intro"), TextLine("Hello world")>>

\* A metadata line below the fifth line.
LateBody ==
    <<TextLine("Hello world"), TextLine("Hello world"), TextLine("Hello world"),
      TextLine("Hello world"), TextLine("Hello world"),
      MetaLine("title", "Side")>>

Bodies == {EmptyBody, PlainBody, ExampleBody, KeyedBody, BareBody, LateBody}

IssueFields(c, l, b) == [created_at |-> c, labels |-> l, body |-> b]

\* An issue created at stamp 1, without labels, with a plain body.
DefaultFields == IssueFields(1, {}, PlainBody)

\* The issues of the index scenario: two creation stamps and every label
\* set ...
IssueSamples ==
    {IssueFields(c, {}, PlainBody) : c \in {2, 3}}
        \cup {IssueFields(2, l, PlainBody) : l \in LabelSets}

\* ... and every body.
BodySamples == {IssueFields(2, {}, b) : b \in Bodies}

CacheEntries ==
    {NoEntry}
        \cup {LegacyEntry(s) : s \in InitStamps}
        \cup {DictEntry(t, s) : t \in {"issue", "local_file"}, s \in InitStamps}

EmptyCache == [i \in Ids |-> NoEntry]

\* All orders in which os.listdir can return the files S.
Orders(S) ==
    {s \in [1..Cardinality(S) -> S] : {s[k] : k \in 1..Cardinality(S)} = S}

\* The tracker lists open issues newest first: descending issue number.
IssueNumber(i) == CASE i = "1" -> 1 [] i = "2" -> 2

NewestFirst(S) ==
    CHOOSE s \in Orders(S) :
        \A a, b \in 1..Cardinality(S) :
            a < b => IssueNumber(s[a]) > IssueNumber(s[b])

Keys(c) == {i \in Ids : c[i].form # "none"}

HasLegacy(c) == \E i \in Ids : c[i].form = "legacy"

\* ------------------------------------------------- _load_and_migrate_cache
\* Faulty variant: the legacy value is kept as it is.
MigrateEntryKept(v) == v

MigrateEntry(v) ==
    IF v.form = "legacy" THEN DictEntry("issue", v.last_modified) ELSE v

MigrateCache(c) == [i \in Ids |-> MigrateEntry(c[i])]

\* ------------------------------------------------ extract_metadata_and_body
NoSummary == "no summary"

\* The keywords that occur (case-sensitively) in a piece of text.
KeywordsIn(t) ==
    CASE t = "summary" -> {"summary"}
      [] t = "title" -> {"title"}
      [] t = "Short summary" -> {"summary"}
      [] OTHER -> {}

\* word in line
Contains(line, word) == word \in KeywordsIn(line.key) \cup KeywordsIn(line.text)

Max(S) == CHOOSE m \in S : \A n \in S : n <= m

Min2(a, b) == IF a < b THEN a ELSE b

\* The lines of a body whose index is not in indices, in their order.
WithoutLines(lines, indices) ==
    LET keep == DOMAIN lines \ indices
    IN  [k \in 1..Cardinality(keep) |->
            lines[CHOOSE i \in keep :
                      Cardinality({j \in keep : j <= i}) = k]]

extract_metadata_and_body(body) ==
    IF body = EmptyBody
    THEN [summary |-> NoSummary, vertical_title |-> "", body |-> EmptyBody]
    ELSE LET lines == body
             head == 1..Min2(Len(lines), 5)
             \* startswith('!vml-') and the <span> pattern matches
             meta_indices ==
                 {i \in head : lines[i].vml /\ lines[i].has_span}
             as_summary ==
                 {i \in meta_indices : Contains(lines[i], "summary")}
             as_title ==
                 {i \in meta_indices \ as_summary :
                     Contains(lines[i], "title")}
         IN  [summary |-> IF as_summary = {} THEN NoSummary
                          ELSE lines[Max(as_summary)].text,
              vertical_title |-> IF as_title = {} THEN ""
                                 ELSE lines[Max(as_title)].text,
              body |-> WithoutLines(lines, meta_indices)]

\* --------------------------------------------------------- run(): listing
\* created_at[:10]: the day of a time stamp (two stamps a day).
DateOf(t) == (t + 1) \div 2

IssueTitle == "Post"

\* metadata["vertical_title"] or title or "Blog"
VTitle(vertical_title, title) ==
    IF vertical_title # "" THEN vertical_title
    ELSE IF title # "" THEN title ELSE "Blog"

ListItem(article) ==
    LET metadata == extract_metadata_and_body(article.body)
    IN  [id |-> article.id,
         date |-> DateOf(article.created_at),
         tags |-> article.labels,
         content |-> metadata.summary,
         verticalTitle |-> VTitle(metadata.vertical_title, article.title)]

\* Faulty variant: the configured special_tags are ignored.
IsSpecialBuiltinOnly(tags) == tags \cap {"special", "top"} # {}

IsSpecial(tags) == tags \cap ({"special", "top"} \cup special_tags) # {}

DaysText ==
    IF special_view = "dated" THEN "days: N" ELSE "days: calculating"

\* The synthetic entry; it has no date (0) and no tags.
FallbackItem ==
    [id |-> "0", date |-> 0, tags |-> {},
     content |-> <<"RF_Information", "Copyright", DaysText, "Others">>,
     verticalTitle |-> "Special"]

\* Faulty variant: the entry is added next to special articles too.
NeedsFallbackAlways(sp) == special_view # "absent"

NeedsFallback(sp) == sp = <<>> /\ special_view # "absent"

WithFallback(sp) == IF NeedsFallback(sp) THEN Append(sp, FallbackItem) ELSE sp

\* Faulty variant: an article goes in front of the articles of its date.
InsertByDateFirst(sorted, x) ==
    LET p == Cardinality({j \in DOMAIN sorted : sorted[j].date > x.date})
    IN  SubSeq(sorted, 1, p) \o <<x>> \o SubSeq(sorted, p + 1, Len(sorted))

\* One step of the stable descending sort: x goes behind every article of
\* its date or a later one.
InsertByDate(sorted, x) ==
    LET p == Cardinality({j \in DOMAIN sorted : sorted[j].date >= x.date})
    IN  SubSeq(sorted, 1, p) \o <<x>> \o SubSeq(sorted, p + 1, Len(sorted))

RECURSIVE SortByDate(_)
\* all_articles.sort(key=lambda x: x['date'], reverse=True)
SortByDate(s) ==
    IF s = <<>> THEN <<>>
    ELSE InsertByDate(SortByDate(SubSeq(s, 1, Len(s) - 1)), s[Len(s)])

\* ------------------------------------------------------------ run(): plan
IssuesEnabled == data_source_mode \in {"issues_only", "dual"}

LocalEnabled == data_source_mode \in {"local_only", "dual"}

\* get_issues_articles: the open issues, or nothing when REPO/GITHUB_TOKEN is
\* missing or the request fails.
FetchedIssues == {i \in Ids : IssuesEnabled /\ remoteOK /\ issues[i].open}

\* get_local_files_articles: the *.md files found by os.listdir ...
MdFiles == {i \in Ids : LocalEnabled /\ posts[i].st # "absent"}

\* ... and those of them whose mtime can be read (the others are skipped).
ReadableFiles == {i \in MdFiles : posts[i].st = "ok"}

KnownFromHtml == {i \in Ids : htmlFiles[i].state # "none"}

\* Faulty variant: the active identifiers are not subtracted.
ToDeleteAllKnown(known, active) == known

ToDelete(known, active) == known \ active

\* Faulty variant: the cache record of a deleted article is kept.
CacheAfterDeleteKept(c, del) == c

CacheAfterDelete(c, del) == [i \in Ids |-> IF i \in del THEN NoEntry ELSE c[i]]

\* Faulty variant: the artifact of a deleted article is left on disk.
HtmlAfterDeleteKept(h, del) == h

HtmlAfterDelete(h, del) == [i \in Ids |-> IF i \in del THEN NoHtml ELSE h[i]]

\* Faulty variant: the backup of a deleted article is never removed.
OmdAfterDeleteKept(o, c, del) == o

OmdAfterDelete(o, c, del) ==
    o \ {i \in del : c[i].form # "none" /\ c[i].type = "issue"}

\* Faulty variant: the check for a lost artifact is missing.
IssueNeedsProcessNoHeal(c, known, iid, updated_at) ==
    LET cached_info == c[iid].form # "none"
        cache_is_issue_type == cached_info /\ c[iid].type = "issue"
        cache_time_matches == cached_info /\ c[iid].last_modified = updated_at
    IN  \/ ~cached_info
        \/ cache_is_issue_type /\ ~cache_time_matches

\* Faulty variant: an uncached issue is regenerated only without artifact.
IssueNeedsProcessNoNew(c, known, iid, updated_at) ==
    LET cached_info == c[iid].form # "none"
        cache_is_issue_type == cached_info /\ c[iid].type = "issue"
        cache_time_matches == cached_info /\ c[iid].last_modified = updated_at
        html_exists == iid \in known
    IN  \/ cache_is_issue_type /\ cache_time_matches /\ ~html_exists
        \/ ~cached_info /\ ~html_exists
        \/ cache_is_issue_type /\ ~cache_time_matches

\* Faulty variant: every listed issue is regenerated.
IssueNeedsProcessAlways(c, known, iid, updated_at) == TRUE

IssueNeedsProcess(c, known, iid, updated_at) ==
    LET cached_info == c[iid].form # "none"
        cache_is_issue_type == cached_info /\ c[iid].type = "issue"
        cache_time_matches == cached_info /\ c[iid].last_modified = updated_at
        html_exists == iid \in known
    IN  \/ cache_is_issue_type /\ cache_time_matches /\ ~html_exists
        \/ ~cached_info
        \/ cache_is_issue_type /\ ~cache_time_matches

LocalNeedsProcess(c, known, lid, current_mtime) ==
    LET cached_info == c[lid].form # "none"
        cache_is_local_type == cached_info /\ c[lid].type = "local_file"
        cache_time_matches ==
            cached_info /\ c[lid].last_modified = current_mtime
        html_exists == lid \in known
    IN  \/ cache_is_local_type /\ cache_time_matches /\ ~html_exists
        \/ ~cached_info
        \/ cache_is_local_type /\ ~cache_time_matches

SeqIds(s) == {s[k].id : k \in 1..Len(s)}

ToProcessIssues(c, known, listed) ==
    {listed[k].id : k \in {j \in 1..Len(listed) :
        IssueNeedsProcess(c, known, listed[j].id, listed[j].updated_at)}}

\* Faulty variant: the local decisions read a cache that already holds the
\* entries of the issues to be regenerated.
ToProcessLocalAfterIssues(c, known, listed, p) ==
    LET redo == ToProcessIssues(c, known, all_issues)
        c2 == [i \in Ids |-> IF i \in redo THEN DictEntry("issue", 1) ELSE c[i]]
    IN  {listed[k].id : k \in {j \in 1..Len(listed) :
            /\ p[listed[j].id].st = "ok"
            /\ LocalNeedsProcess(c2, known, listed[j].id,
                                 p[listed[j].id].mtime)}}

\* The modification time is read again (os.path.getmtime) for every listed
\* article; a file that cannot be accessed any more is skipped.
ToProcessLocal(c, known, listed, p) ==
    {listed[k].id : k \in {j \in 1..Len(listed) :
        /\ p[listed[j].id].st = "ok"
        /\ LocalNeedsProcess(c, known, listed[j].id, p[listed[j].id].mtime)}}

CurrentMtime(listed, p) ==
    [i \in Ids |->
        IF i \in SeqIds(listed) /\ p[i].st = "ok" THEN p[i].mtime ELSE 0]

NewIssueEntry(issue) == DictEntry("issue", issue.updated_at)

NewLocalEntry(local_article) ==
    DictEntry("local_file", local_article.updated_at)

\* Faulty variant: the collected updates are never merged into self.cache.
CacheUpdateDropped(c, updates) == c

CacheUpdate(c, updates) ==
    [i \in Ids |-> IF updates[i].form # "none" THEN updates[i] ELSE c[i]]

PcAfterIssues == IF all_local_articles # <<>> THEN "render_local" ELSE "save"

PcAfterPlan == IF all_issues # <<>> THEN "render_issues" ELSE PcAfterIssues

\* ----------------------------------------------------------------- Init
\* No invocation has taken place yet.
Idle ==
    /\ pc = "idle"
    /\ cache = EmptyCache
    /\ all_issues = <<>>
    /\ all_local_articles = <<>>
    /\ remote_ids = {}
    /\ local_ids = {}
    /\ known_from_html = {}
    /\ to_delete = {}
    /\ to_process_issues = {}
    /\ to_process_local = {}
    /\ new_cache_updates = EmptyCache
    /\ idx = 1
    /\ all_articles = <<>>
    /\ specials = <<>>
    /\ current_mtime_iso = [i \in Ids |-> 0]
    /\ loaded = EmptyCache
    /\ startCache = EmptyCache
    /\ migrated = {}
    /\ wroteHtml = {}
    /\ wroteOmd = {}
    /\ failed = {}
    /\ stable = FALSE
    /\ repeat = FALSE
    /\ previous = "idle"
    /\ runs = 0
    /\ events = 0

\* Any cache file and article directory; plain articles without labels and
\* no special configuration.
Init ==
    /\ data_source_mode \in Modes
    /\ remoteOK \in BOOLEAN
    \* A source that the mode disables, or a tracker that cannot be reached,
    \* is never read: its content starts empty.
    /\ issues \in [Ids -> IF IssuesEnabled /\ remoteOK
                           THEN {NoIssue, OpenIssue(1)} ELSE {NoIssue}]
    /\ posts \in [Ids -> IF LocalEnabled
                          THEN {NoPost, BrokenPost, OkPost(1)} ELSE {NoPost}]
    /\ cacheFile \in [Ids -> CacheEntries]
    /\ htmlFiles \in [Ids -> {NoHtml, OldHtml}]
    /\ omdFiles = {i \in Ids : cacheFile[i].form = "legacy"
                               \/ cacheFile[i].type = "issue"}
    /\ issue_fields = [i \in Ids |-> DefaultFields]
    /\ post_body = [i \in Ids |-> PlainBody]
    /\ special_tags = {}
    /\ special_view = "absent"
    /\ Idle

\* -------------------------------------------------------------- actions
\* gen = VaLogGenerator(): __init__ loads and migrates the cache.
Construct ==
    /\ pc \in {"idle", "done", "aborted", "init_failed"}
    /\ runs < MaxRuns
    /\ runs' = runs + 1
    /\ previous' = pc
    /\ loaded' = cacheFile
    /\ cache' = MigrateCache(cacheFile)
    /\ migrated' = {i \in Ids : cacheFile[i].form = "legacy"}
    /\ startCache' = cache'
    \* Lines 93-96: the migrated mapping is written at once; when the file
    \* cannot be written the exception leaves __init__ and run() never starts.
    /\ \E outcome \in IF HasLegacy(cacheFile) THEN {"ok", "write_error"}
                                              ELSE {"ok"} :
          IF outcome = "ok"
          THEN /\ cacheFile' =
                     IF HasLegacy(cacheFile) THEN cache' ELSE cacheFile
               /\ pc' = "ready"
          ELSE /\ pc' = "init_failed"
               /\ UNCHANGED cacheFile
    /\ current_mtime_iso' = [i \in Ids |-> 0]
    /\ all_issues' = <<>>
    /\ all_local_articles' = <<>>
    /\ remote_ids' = {}
    /\ local_ids' = {}
    /\ known_from_html' = {}
    /\ to_delete' = {}
    /\ to_process_issues' = {}
    /\ to_process_local' = {}
    /\ new_cache_updates' = EmptyCache
    /\ idx' = 1
    /\ all_articles' = <<>>
    /\ specials' = <<>>
    /\ wroteHtml' = {}
    /\ wroteOmd' = {}
    /\ failed' = {}
    /\ repeat' = (pc = "done" /\ stable)
    /\ stable' = TRUE
    /\ UNCHANGED <<envVars, htmlFiles, omdFiles, events>>

\* run(), lines 241-252: get_issues_articles and get_local_files_articles.
ListSources ==
    /\ pc = "ready"
    /\ LET io == NewestFirst(FetchedIssues)
       IN  all_issues' =
               [k \in DOMAIN io |->
                   [id |-> io[k], updated_at |-> issues[io[k]].updated_at,
                    title |-> IssueTitle,
                    created_at |-> issue_fields[io[k]].created_at,
                    labels |-> issue_fields[io[k]].labels,
                    body |-> issue_fields[io[k]].body]]
    \* A local article: the title is the file name, both time stamps are
    \* the modification time, there are no labels.
    /\ \E lo \in Orders(ReadableFiles) :
          all_local_articles' =
              [k \in DOMAIN lo |->
                  [id |-> lo[k], updated_at |-> posts[lo[k]].mtime,
                   title |-> lo[k],
                   created_at |-> posts[lo[k]].mtime,
                   labels |-> {},
                   body |-> post_body[lo[k]]]]
    /\ remote_ids' = FetchedIssues
    /\ local_ids' = MdFiles
    /\ pc' = "listed"
    /\ UNCHANGED <<envVars, fsVars, cache, planVars, new_cache_updates, idx,
                   indexVars, histVars>>

\* run(), lines 254-352: the cleanup pass and the regenerate decisions.
Reconcile ==
    /\ pc = "listed"
    /\ LET known == KnownFromHtml
           del == ToDelete(known \cup Keys(cache), remote_ids \cup local_ids)
           c == CacheAfterDelete(cache, del)
       IN  /\ known_from_html' = known
           /\ to_delete' = del
           /\ htmlFiles' = HtmlAfterDelete(htmlFiles, del)
           /\ omdFiles' = OmdAfterDelete(omdFiles, cache, del)
           /\ cache' = c
           /\ to_process_issues' =
                 IF IssuesEnabled
                 THEN ToProcessIssues(c, known, all_issues) ELSE {}
           /\ to_process_local' =
                 IF LocalEnabled
                 THEN ToProcessLocal(c, known, all_local_articles, posts)
                 ELSE {}
    /\ current_mtime_iso' = CurrentMtime(all_local_articles, posts)
    /\ idx' = 1
    /\ pc' = PcAfterPlan
    /\ UNCHANGED <<envVars, cacheFile, listVars, new_cache_updates, indexVars,
                   loaded, startCache, migrated, wroteHtml, wroteOmd, failed,
                   stable, repeat, previous, runs, events>>

\* run(), lines 414-418 and 472-476: the list item goes to its list.
AddToList(list_item, is_special) ==
    IF is_special
    THEN specials' = Append(specials, list_item) /\ UNCHANGED all_articles
    ELSE all_articles' = Append(all_articles, list_item) /\ UNCHANGED specials

\* run(), lines 363-420: one iteration of the loop over all_issues.
RenderIssue ==
    /\ pc = "render_issues"
    /\ LET issue == all_issues[idx]
           iid == issue.id
           is_special == IsSpecial(issue.labels)
           list_item == ListItem(issue)
           last == idx = Len(all_issues)
       IN  IF iid \in to_process_issues
           THEN \E outcome \in {"ok", "render_error", "backup_error"} :
                /\ wroteHtml' = wroteHtml \cup {iid}
                /\ htmlFiles' = [htmlFiles EXCEPT ![iid] =
                        IF outcome = "render_error" THEN PartialHtml
                        ELSE FullHtml("issue", issue.updated_at)]
                /\ IF outcome = "ok"
                   THEN /\ omdFiles' = omdFiles \cup {iid}
                        /\ wroteOmd' = wroteOmd \cup {iid}
                        /\ new_cache_updates' =
                              [new_cache_updates EXCEPT
                                  ![iid] = NewIssueEntry(issue)]
                        /\ AddToList(list_item, is_special)
                        /\ idx' = IF last THEN 1 ELSE idx + 1
                        /\ pc' = IF last THEN PcAfterIssues ELSE pc
                        /\ UNCHANGED failed
                   ELSE /\ failed' = failed \cup {iid}
                        /\ pc' = "aborted"
                        /\ UNCHANGED <<omdFiles, wroteOmd, new_cache_updates,
                                       idx, indexVars>>
           ELSE /\ AddToList(list_item, is_special)
                /\ idx' = IF last THEN 1 ELSE idx + 1
                /\ pc' = IF last THEN PcAfterIssues ELSE pc
                /\ UNCHANGED <<htmlFiles, omdFiles, new_cache_updates,
                               wroteHtml, wroteOmd, failed>>
    /\ UNCHANGED <<envVars, cacheFile, cache, listVars, planVars,
                   current_mtime_iso, loaded, startCache, migrated, stable,
                   repeat, previous, runs, events>>

\* run(), lines 423-476: one iteration of the loop over all_local_articles.
RenderLocal ==
    /\ pc = "render_local"
    /\ LET local_article == all_local_articles[idx]
           lid == local_article.id
           is_special == FALSE
           list_item == ListItem(local_article)
           last == idx = Len(all_local_articles)
       IN  IF lid \in to_process_local
           THEN \E outcome \in {"ok", "render_error"} :
                /\ wroteHtml' = wroteHtml \cup {lid}
                /\ IF outcome = "ok"
                   THEN /\ htmlFiles' = [htmlFiles EXCEPT ![lid] =
                              FullHtml("local_file", local_article.updated_at)]
                        /\ new_cache_updates' =
                              [new_cache_updates EXCEPT ![lid] =
                                  NewLocalEntry(local_article)]
                        /\ AddToList(list_item, is_special)
                        /\ idx' = IF last THEN 1 ELSE idx + 1
                        /\ pc' = IF last THEN "save" ELSE pc
                        /\ UNCHANGED failed
                   ELSE /\ htmlFiles' = [htmlFiles EXCEPT ![lid] = PartialHtml]
                        /\ failed' = failed \cup {lid}
                        /\ pc' = "aborted"
                        /\ UNCHANGED <<new_cache_updates, idx, indexVars>>
           ELSE /\ AddToList(list_item, is_special)
                /\ idx' = IF last THEN 1 ELSE idx + 1
                /\ pc' = IF last THEN "save" ELSE pc
                /\ UNCHANGED <<htmlFiles, new_cache_updates, wroteHtml,
                               failed>>
    /\ UNCHANGED <<envVars, cacheFile, omdFiles, cache, listVars, planVars,
                   current_mtime_iso, loaded, startCache, migrated, wroteOmd,
                   stable, repeat, previous, runs, events>>

\* run(), lines 478-511: merge the updates, add the fallback special entry,
\* sort the regular list and overwrite the cache file.
SaveCache ==
    /\ pc = "save"
    /\ cache' = CacheUpdate(cache, new_cache_updates)
    /\ specials' = WithFallback(specials)
    /\ all_articles' = SortByDate(all_articles)
    /\ \E outcome \in {"ok", "write_error"} :
          IF outcome = "ok"
          THEN /\ cacheFile' = cache'
               /\ pc' = "emit"
          ELSE /\ pc' = "aborted"
               /\ UNCHANGED cacheFile
    /\ UNCHANGED <<envVars, htmlFiles, omdFiles, listVars, planVars,
                   new_cache_updates, idx, histVars>>

\* run(), lines 513-524: base.yaml and the home page.  A failure to write
\* base.yaml leaves run(); generate_index catches its own failures.
EmitIndex ==
    /\ pc = "emit"
    /\ \E outcome \in {"ok", "write_error"} :
          pc' = IF outcome = "ok" THEN "done" ELSE "aborted"
    /\ UNCHANGED <<envVars, fsVars, cache, listVars, planVars,
                   new_cache_updates, idx, indexVars, histVars>>

\* ---------------------------------------------------------- environment
\* run() has listed the sources and has not returned yet.
Running ==
    pc \in {"listed", "render_issues", "render_local", "save", "emit"}

\* A local file is modified while a run is in progress.
TouchLocal ==
    \E i \in Ids :
        /\ Running
        /\ events < MaxEvents
        /\ events' = events + 1
        /\ posts[i].st = "ok"
        /\ posts' = [posts EXCEPT ![i] = OkPost(posts[i].mtime + 1)]
        /\ stable' = FALSE
        /\ UNCHANGED <<data_source_mode, remoteOK, issues, contentVars, fsVars,
                       pc, cache, listVars, planVars, new_cache_updates, idx,
                       indexVars,
                       current_mtime_iso, loaded, startCache, migrated,
                       wroteHtml, wroteOmd, failed, repeat, previous, runs>>

\* A local file is removed while a run is in progress.
RemoveLocal ==
    \E i \in Ids :
        /\ Running
        /\ events < MaxEvents
        /\ events' = events + 1
        /\ posts[i].st = "ok"
        /\ posts' = [posts EXCEPT ![i] = NoPost]
        /\ stable' = FALSE
        /\ UNCHANGED <<data_source_mode, remoteOK, issues, contentVars, fsVars,
                       pc, cache, listVars, planVars, new_cache_updates, idx,
                       indexVars,
                       current_mtime_iso, loaded, startCache, migrated,
                       wroteHtml, wroteOmd, failed, repeat, previous, runs>>

\* The generator alone: nothing else touches the files while it runs.
Next ==
    \/ Construct
    \/ ListSources
    \/ Reconcile
    \/ RenderIssue
    \/ RenderLocal
    \/ SaveCache
    \/ EmitIndex

Spec == Init /\ [][Next]_vars

\* The generator next to an editor of the posts directory, who modifies or
\* removes files while run() is in progress.  The cache file is in the
\* current format already and every file in the directory can be read.
InitEnv ==
    /\ Init
    /\ ~HasLegacy(cacheFile)
    /\ \A i \in Ids : posts[i] # BrokenPost

NextEnv ==
    \/ Construct
    \/ ListSources
    \/ Reconcile
    \/ RenderIssue
    \/ RenderLocal
    \/ SaveCache
    \/ EmitIndex
    \/ TouchLocal
    \/ RemoveLocal

SpecEnv == InitEnv /\ [][NextEnv]_vars

\* The index scenario: a first invocation (empty cache file and article
\* directory, a tracker that answers) over labelled issues, issue 1 with
\* all kinds of bodies, files of two days, and every special configuration.
InitIndex ==
    /\ data_source_mode \in Modes
    /\ remoteOK = TRUE
    /\ issues \in [Ids -> IF IssuesEnabled
                           THEN {NoIssue, OpenIssue(1)} ELSE {NoIssue}]
    /\ posts \in [Ids -> IF LocalEnabled
                          THEN {NoPost, OkPost(1), OkPost(3)} ELSE {NoPost}]
    /\ issue_fields \in
          [Ids -> IssueSamples \cup BodySamples \cup {DefaultFields}]
    /\ \A i \in Ids :
          IF issues[i].open
          THEN issue_fields[i] \in
                   IF i = "1" THEN IssueSamples \cup BodySamples
                   ELSE IssueSamples
          ELSE issue_fields[i] = DefaultFields
    /\ post_body = [i \in Ids |-> PlainBody]
    /\ special_tags \in {{}, {"pinned"}}
    /\ special_view \in {"absent", "dated", "undated"}
    /\ cacheFile = EmptyCache
    /\ htmlFiles = [i \in Ids |-> NoHtml]
    /\ omdFiles = {}
    /\ Idle

SpecIndex == InitIndex /\ [][Next]_vars

\* The backup scenario: besides the backups of the issue-typed cache
\* entries, O-MD may hold backups of identifiers whose cache entry was lost
\* (no cache file, or an unreadable one) or was overwritten by a local file.
\* The cache file is in the current format and every file can be read.
InitOmd ==
    /\ data_source_mode \in Modes
    /\ remoteOK \in BOOLEAN
    /\ issues \in [Ids -> IF IssuesEnabled /\ remoteOK
                           THEN {NoIssue, OpenIssue(1)} ELSE {NoIssue}]
    /\ posts \in [Ids -> IF LocalEnabled
                          THEN {NoPost, OkPost(1)} ELSE {NoPost}]
    /\ cacheFile \in [Ids -> CacheEntries]
    /\ ~HasLegacy(cacheFile)
    /\ htmlFiles \in [Ids -> {NoHtml, OldHtml}]
    /\ omdFiles \in SUBSET Ids
    /\ {i \in Ids : cacheFile[i].type = "issue"} \subseteq omdFiles
    /\ issue_fields = [i \in Ids |-> DefaultFields]
    /\ post_body = [i \in Ids |-> PlainBody]
    /\ special_tags = {}
    /\ special_view = "absent"
    /\ Idle

SpecOmd == InitOmd /\ [][Next]_vars

TypeOK ==
    /\ data_source_mode \in Modes
    /\ pc \in {"idle", "init_failed", "ready", "listed", "render_issues",
               "render_local", "save", "emit", "done", "aborted"}
    /\ to_delete \subseteq Ids
    /\ to_process_issues \subseteq Ids
    /\ to_process_local \subseteq Ids

\* ------------------------------------------------------------ properties
\* The plan of the current run (to_delete, to_process_*) has been computed.
Planned ==
    pc \in {"render_issues", "render_local", "save", "emit", "done", "aborted"}

ActiveIds == remote_ids \cup local_ids

Footprint == known_from_html \cup Keys(startCache)

ToProcess == to_process_issues \cup to_process_local

\* The modification signal the listing returned for article i.
ListedStamp(listed, i) ==
    (CHOOSE a \in {listed[k] : k \in 1..Len(listed)} : a.id = i).updated_at

\* Issue i was returned by the tracker in this run.
ListedIssue(i) == i \in SeqIds(all_issues)

\* Local file i was returned by the listing and its mtime was read again.
ListedLocal(i) == i \in SeqIds(all_local_articles) /\ current_mtime_iso[i] # 0

\* C1: after one completed run, a second run with the same sources and no
\* external change computes to_delete = {} and to_process_issues =
\* to_process_local = {}.
C1_Idempotence ==
    (repeat /\ stable /\ Planned) =>
        /\ to_delete = {}
        /\ to_process_issues = {}
        /\ to_process_local = {}

\* The second run was planned after a first run that rendered an issue and a
\* local file.
C1_Witness ==
    /\ repeat /\ stable /\ Planned
    /\ \E i \in remote_ids : htmlFiles[i] = FullHtml("issue", 1)
    /\ \E i \in local_ids : htmlFiles[i] = FullHtml("local_file", 1)

\* C2: an active identifier whose cache entry has the type of the other
\* source is put in the regenerate set, whatever the stored last_modified
\* and whether or not an artifact exists.
C2_TypeMismatchRegenerated ==
    Planned =>
        /\ \A i \in Ids :
              (ListedIssue(i) /\ startCache[i].type = "local_file")
                  => i \in to_process_issues
        /\ \A i \in Ids :
              (ListedLocal(i) /\ startCache[i].type = "issue")
                  => i \in to_process_local

\* C3 as written: every identifier of the active set without a cache entry
\* is in the regenerate set.
C3_ActiveUncachedRegenerated ==
    Planned =>
        \A i \in ActiveIds : startCache[i].form = "none" => i \in ToProcess

\* C3 amended: every identifier for which an enabled source returned an
\* article (for a local file: whose modification time could be read at
\* listing and again at reconciliation) and which has no cache entry is in
\* the regenerate set of its source, with or without an artifact on disk.
C3_NewArticleDetection ==
    Planned =>
        /\ \A i \in Ids :
              (ListedIssue(i) /\ startCache[i].form = "none")
                  => i \in to_process_issues
        /\ \A i \in Ids :
              (ListedLocal(i) /\ startCache[i].form = "none")
                  => i \in to_process_local

\* An uncached issue and an uncached local file, both with an artifact on
\* disk, were planned for regeneration.
C3_Witness ==
    /\ Planned
    /\ \E i \in to_process_issues :
          startCache[i].form = "none" /\ i \in known_from_html
    /\ \E i \in to_process_local :
          startCache[i].form = "none" /\ i \in known_from_html

\* The cache entry of i has the type of the source and the current signal,
\* and i had no artifact when the run started.
LostIssue(i) ==
    /\ ListedIssue(i)
    /\ startCache[i].type = "issue"
    /\ startCache[i].last_modified = ListedStamp(all_issues, i)
    /\ i \notin known_from_html

LostLocal(i) ==
    /\ ListedLocal(i)
    /\ startCache[i].type = "local_file"
    /\ startCache[i].last_modified = current_mtime_iso[i]
    /\ i \notin known_from_html

\* C4: an active identifier whose cache entry matches type and modification
\* signal but whose artifact is missing at the start of the run is in the
\* regenerate set, and its artifact exists again when the run completes.
C4_SelfHealing ==
    Planned =>
        \A i \in Ids :
            /\ LostIssue(i) => i \in to_process_issues
            /\ LostLocal(i) => i \in to_process_local
            /\ (pc = "done" /\ (LostIssue(i) \/ LostLocal(i)))
                  => htmlFiles[i].state = "full"

\* A run completed that repaired a lost issue artifact and the lost artifact
\* of a local file whose cache entry matched the mtime read at
\* reconciliation, not the one read at listing.
C4_Witness ==
    /\ pc = "done"
    /\ \E i \in Ids : LostIssue(i) /\ htmlFiles[i].state = "full"
    /\ \E i \in Ids :
          /\ LostLocal(i)
          /\ ListedStamp(all_local_articles, i) # current_mtime_iso[i]
          /\ htmlFiles[i].state = "full"

\* C5: every identifier with a cache entry or an artifact that no active
\* source lists is in to_delete; after the run its artifact is gone, its
\* backup is gone if its cache entry had type issue, and the saved cache has
\* no entry for it.
C5_RemovalCleanup ==
    /\ Planned => to_delete = Footprint \ ActiveIds
    /\ pc = "done" =>
          \A i \in Footprint \ ActiveIds :
              /\ htmlFiles[i].state = "none"
              /\ startCache[i].type = "issue" => i \notin omdFiles
              /\ cacheFile[i].form = "none"

\* A run completed that removed an issue-typed identifier which had an
\* artifact, a backup and a cache entry, and one known only by its artifact.
C5_Witness ==
    /\ pc = "done"
    /\ \E i \in to_delete :
          startCache[i].type = "issue" /\ i \in known_from_html
    /\ \E i \in to_delete : startCache[i].form = "none"

\* C6: when run() completes, every identifier for which an enabled source
\* returned an article has a rendered artifact on disk.
C6_ActiveHasArtifact ==
    pc = "done" =>
        \A i \in SeqIds(all_issues) \cup SeqIds(all_local_articles) :
            htmlFiles[i].state = "full"

UnchangedIssue(i) ==
    /\ ListedIssue(i)
    /\ startCache[i].type = "issue"
    /\ startCache[i].last_modified = ListedStamp(all_issues, i)
    /\ i \in known_from_html

UnchangedLocal(i) ==
    /\ ListedLocal(i)
    /\ startCache[i].type = "local_file"
    /\ startCache[i].last_modified = current_mtime_iso[i]
    /\ i \in known_from_html

\* C7: an active identifier whose cache entry matches its source type and
\* modification signal and whose artifact exists is not rewritten (artifact,
\* backup) and keeps its cache entry in the saved cache; a second run with
\* no source change writes and removes no artifact and saves the mapping
\* the first run saved.
C7_UnchangedUntouched ==
    /\ Planned =>
          \A i \in Ids :
              (UnchangedIssue(i) \/ UnchangedLocal(i)) =>
                  /\ i \notin wroteHtml
                  /\ i \notin wroteOmd
                  /\ i \notin to_delete
                  /\ pc \in {"emit", "done"} => cacheFile[i] = startCache[i]
    /\ (repeat /\ stable) =>
          /\ wroteHtml = {}
          /\ wroteOmd = {}
          /\ to_delete = {}
          /\ pc \in {"emit", "done"} => cacheFile = startCache

\* A second run without external change completed and left alone an issue
\* and a local file that the first run had rendered.
C7_Witness ==
    /\ pc = "done" /\ repeat /\ stable
    /\ \E i \in Ids : UnchangedIssue(i) /\ htmlFiles[i] = FullHtml("issue", 1)
    /\ \E i \in Ids :
          UnchangedLocal(i) /\ htmlFiles[i] = FullHtml("local_file", 1)

\* C8: on load a bare string s becomes {type: issue, last_modified: s} and
\* structured values are unchanged; the migrated mapping is in the cache
\* file before run() starts, so no later load finds a legacy entry; a
\* migrated entry that equals the issue's updated_at, with an artifact, is
\* not regenerated.
C8_LegacyMigration ==
    /\ pc = "ready" =>
          /\ \A i \in Ids :
                cache[i] = IF loaded[i].form = "legacy"
                           THEN [form |-> "dict", type |-> "issue",
                                 last_modified |-> loaded[i].last_modified]
                           ELSE loaded[i]
          /\ cacheFile = cache
    /\ pc \notin {"idle", "init_failed"} =>
          \A i \in Ids : cacheFile[i].form # "legacy"
    /\ (pc # "init_failed" /\ previous \in {"done", "aborted"}) => migrated = {}
    /\ Planned =>
          \A i \in migrated :
              (/\ ListedIssue(i)
               /\ startCache[i].last_modified = ListedStamp(all_issues, i)
               /\ i \in known_from_html)
                  => i \notin to_process_issues /\ i \notin wroteHtml

\* A legacy entry was migrated next to a structured one, its unchanged
\* issue was left alone, and the run aborted on another article.
C8_Witness ==
    /\ pc = "aborted"
    /\ \E i \in Ids : loaded[i].form = "dict"
    /\ \E i \in migrated :
          /\ ListedIssue(i)
          /\ startCache[i].last_modified = ListedStamp(all_issues, i)
          /\ i \in known_from_html
          /\ i \notin wroteHtml

\* C9: no identifier is both in to_delete and in a regenerate set; to_delete
\* holds only identifiers absent from the active set, the regenerate sets
\* only identifiers present in it.
C9_DeleteRegenerateDisjoint ==
    Planned =>
        /\ to_delete \cap ToProcess = {}
        /\ to_delete \cap ActiveIds = {}
        /\ ToProcess \subseteq ActiveIds
        /\ to_process_issues \subseteq remote_ids
        /\ to_process_local \subseteq local_ids

\* One plan deletes an identifier and regenerates an issue and a local file.
C9_Witness ==
    /\ Planned
    /\ to_delete # {}
    /\ to_process_issues # {}
    /\ to_process_local # {}

\* C10: when rendering or writing one article fails, the run does not abort;
\* every other article of the regenerate set is rendered and the cache is
\* written with their updates.
C10_FailureIsolated ==
    failed # {} =>
        /\ pc # "aborted"
        /\ pc = "done" =>
              \A i \in ToProcess \ failed :
                  i \in wroteHtml /\ cacheFile[i].form = "dict"

\* No enabled source can deliver articles: the mode enables none, or the
\* tracker is the only enabled source and cannot be read.
NoUsableSource ==
    \/ ~(IssuesEnabled \/ LocalEnabled)
    \/ data_source_mode = "issues_only" /\ ~remoteOK

\* C11: when the mode enables no source, or the only enabled source is
\* unavailable, the run aborts instead of proceeding with an empty active
\* set: it never gets to save the cache, emit the home page and complete.
C11_AbortWithoutSource ==
    NoUsableSource => pc \notin {"save", "emit", "done"}

\* Both sources returned an article with identifier i.
Collision(i) == ListedIssue(i) /\ i \in SeqIds(all_local_articles)

\* C12: when one identifier is listed by both sources, the artifact on disk
\* after the run is the one rendered from the local file, whatever the cache
\* held for the identifier (an artifact left by an earlier invocation of
\* unknown origin counts as the local file's).
C12_CollisionLocalWins ==
    pc = "done" =>
        \A i \in Ids :
            Collision(i) =>
                /\ htmlFiles[i].state = "full"
                /\ htmlFiles[i].type # "issue"

\* The lists of the current run are complete (the render loops are over).
Assembled == pc \in {"emit", "done"}

\* The articles the sources returned, in the order the loops visit them.
Encountered == all_issues \o all_local_articles

\* The tags that make an article special under the configuration.
SpecialTagSet == {"special", "top"} \cup special_tags

IsArticleItem(x) == x.id # "0"

HasSpecialTag(x) == x.tags \cap SpecialTagSet # {}

HasNoSpecialTag(x) == x.tags \cap SpecialTagSet = {}

Count(s, v) == Cardinality({k \in DOMAIN s : s[k] = v})

\* C13: a run builds exactly one list item per article returned by an
\* enabled source, regenerated or not; the item is in the special list iff
\* its tags contain "special", "top" or a configured special tag, and in the
\* regular list otherwise.
C13_ListingAssembly ==
    Assembled =>
        LET sp == SelectSeq(specials, IsArticleItem)
            items == [k \in DOMAIN Encountered |-> ListItem(Encountered[k])]
        IN  /\ Len(all_articles) + Len(sp) = Len(Encountered)
            /\ \A k \in DOMAIN items :
                  Count(all_articles, items[k]) + Count(sp, items[k])
                      = Count(items, items[k])
            /\ \A k \in DOMAIN all_articles : HasNoSpecialTag(all_articles[k])
            /\ \A k \in DOMAIN sp : HasSpecialTag(sp[k])

\* A second run that regenerated nothing listed an issue as special for a
\* configured tag, next to a regular issue and a regular local file.
C13_Witness ==
    /\ pc = "done" /\ previous = "done" /\ wroteHtml = {}
    /\ \E k \in DOMAIN specials : specials[k].tags = {"pinned"}
    /\ \E k \in DOMAIN all_articles : all_articles[k].verticalTitle = "Post"
    /\ \E k \in DOMAIN all_articles : all_articles[k].id \in local_ids

\* The regular items in the order the articles were encountered.
EncounteredRegular ==
    SelectSeq([k \in DOMAIN Encountered |-> ListItem(Encountered[k])],
              HasNoSpecialTag)

\* C14: the sorted regular list is a permutation of the unsorted one, in
\* descending order of date, and items of one date keep the order in which
\* the articles were encountered; encounter dates [2, 5, 2] give
\* [5, 2 (first), 2 (second)].
C14_RegularOrder ==
    /\ Assembled =>
          LET n == Len(EncounteredRegular)
          IN  /\ Len(all_articles) = n
              /\ \E pi \in Orders(1..n) :
                    /\ \A k \in 1..n :
                          all_articles[k] = EncounteredRegular[pi[k]]
                    /\ \A a, b \in 1..n :
                          a < b =>
                              \/ all_articles[a].date > all_articles[b].date
                              \/ /\ all_articles[a].date = all_articles[b].date
                                 /\ pi[a] < pi[b]
    /\ SortByDate(<<[id |-> "a", date |-> 2], [id |-> "b", date |-> 5],
                    [id |-> "c", date |-> 2]>>)
          = <<[id |-> "b", date |-> 5], [id |-> "a", date |-> 2],
              [id |-> "c", date |-> 2]>>

\* Three regular articles were sorted: the second one encountered is the
\* newest, the first and the third share a date and kept their order.
C14_Witness ==
    /\ pc = "done"
    /\ Len(all_articles) = 3
    /\ all_articles[1] = EncounteredRegular[2]
    /\ all_articles[2] = EncounteredRegular[1]
    /\ all_articles[3] = EncounteredRegular[3]
    /\ all_articles[1].date > all_articles[2].date
    /\ all_articles[2].date = all_articles[3].date
    /\ all_articles[2] # all_articles[3]

\* C15: the entry with identifier "0" is in the special list iff no article
\* is special and the fallback view is configured; it is then the only
\* entry, its content has exactly four strings, and with an unparsable
\* Total_time the third is the placeholder.
C15_SpecialFallback ==
    Assembled =>
        LET has_fallback == \E k \in DOMAIN specials : specials[k].id = "0"
            any_special ==
                \E k \in DOMAIN Encountered :
                    Encountered[k].labels \cap SpecialTagSet # {}
        IN  /\ has_fallback <=> (~any_special /\ special_view # "absent")
            /\ has_fallback =>
                  /\ Len(specials) = 1
                  /\ Len(specials[1].content) = 4
                  /\ special_view = "undated" =>
                        specials[1].content[3] = "days: calculating"
                  /\ special_view = "dated" =>
                        specials[1].content[3] = "days: N"

\* A run with regular articles only and an unparsable Total_time completed
\* with the synthetic entry as the only special.
C15_Witness ==
    /\ pc = "done"
    /\ special_view = "undated"
    /\ Len(all_articles) = 2
    /\ Len(specials) = 1
    /\ specials[1].id = "0"

\* C16: for the body "!vml-s<span>Short summary</span>", "!vml-t<span>My
\* Title</span>", "Hello world" the extraction returns summary "Short
\* summary", vertical title "My Title" and clean body "Hello world"; and no
\* line of a returned clean body starts with "!vml-".
C16_MetadataExtraction ==
    Assembled =>
        \A k \in DOMAIN Encountered :
            LET metadata == extract_metadata_and_body(Encountered[k].body)
            IN  /\ Encountered[k].body = ExampleBody =>
                      /\ metadata.summary = "Short summary"
                      /\ metadata.vertical_title = "My Title"
                      /\ metadata.body = <<TextLine("Hello world")>>
                /\ \A j \in DOMAIN metadata.body : ~metadata.body[j].vml

\* C17: a failure to write the cache file or the snapshot at the end of
\* run() does not abort the run: a run in which every article was rendered
\* without failure never ends in an abort.
C17_PersistenceNotFatal ==
    ~(pc = "aborted" /\ failed = {})

\* The cache the decisions of this run may read: the loaded one without the
\* deleted entries.
SnapshotCache ==
    [i \in Ids |-> IF i \in to_delete THEN NoEntry ELSE startCache[i]]

\* C18: every regenerate decision of a run is the decision chain applied to
\* the cache loaded at the start minus the deleted entries, also for an
\* identifier that the other source lists and regenerates in the same run;
\* and every update collected while rendering is in the saved mapping.
C18_PreRunSnapshot ==
    /\ Planned =>
          /\ \A k \in DOMAIN all_issues :
                LET issue == all_issues[k]
                IN  issue.id \in to_process_issues <=>
                        IssueNeedsProcess(SnapshotCache, known_from_html,
                                          issue.id, issue.updated_at)
          /\ \A k \in DOMAIN all_local_articles :
                LET lid == all_local_articles[k].id
                IN  lid \in to_process_local <=>
                        /\ current_mtime_iso[lid] # 0
                        /\ LocalNeedsProcess(SnapshotCache, known_from_html,
                                             lid, current_mtime_iso[lid])
    /\ Assembled =>
          \A i \in Ids :
              new_cache_updates[i].form # "none"
                  => cacheFile[i] = new_cache_updates[i]

\* An uncached identifier listed by both sources was regenerated from both
\* in one run, and the saved entry is the local file's.
C18_Witness ==
    /\ pc = "done"
    /\ \E i \in to_process_issues \cap to_process_local :
          /\ startCache[i].form = "none"
          /\ cacheFile[i] = [form |-> "dict", type |-> "local_file",
                             last_modified |-> 1]
          /\ i \in wroteOmd

\* C19: when run() completes, every key of the saved cache and every
\* artifact belongs to an identifier listed in this run; an entry that was
\* added or changed belongs to an identifier whose artifact was written in
\* this run, and carries the type and stamp of the source it was rendered
\* from.
C19_NoStaleFootprint ==
    pc = "done" =>
        /\ Keys(cacheFile) \subseteq ActiveIds
        /\ {i \in Ids : htmlFiles[i].state # "none"} \subseteq ActiveIds
        /\ \A i \in Keys(cacheFile) :
              cacheFile[i] # startCache[i] =>
                  /\ i \in wroteHtml
                  /\ htmlFiles[i].state = "full"
                  /\ htmlFiles[i].type = cacheFile[i].type
                  /\ htmlFiles[i].stamp = cacheFile[i].last_modified

\* A run completed that removed an identifier with cache entry and artifact
\* and changed the entry of a modified issue.
C19_Witness ==
    /\ pc = "done"
    /\ \E i \in to_delete :
          startCache[i].form = "dict" /\ i \in known_from_html
    /\ \E i \in to_process_issues :
          /\ startCache[i].type = "issue"
          /\ startCache[i].last_modified # cacheFile[i].last_modified

\* Local file i, listed by the second invocation, was modified while the
\* first one, which completed, was running.
ModifiedDuringFirstRun(i) ==
    /\ runs = 2
    /\ previous = "done"
    /\ ListedLocal(i)
    /\ ListedStamp(all_local_articles, i) > 1

\* C20: a local file modified during a run, after its mtime was read by the
\* listing, is regenerated by the next run whenever the saved cache entry
\* differs from the file's new mtime; the entry a run saves for a local file
\* is the mtime read at listing.
C20_LocalChangeNotLost ==
    /\ Assembled =>
          \A i \in to_process_local :
              cacheFile[i].last_modified = ListedStamp(all_local_articles, i)
    /\ Planned =>
          \A i \in Ids :
              (/\ ModifiedDuringFirstRun(i)
               /\ startCache[i].last_modified # current_mtime_iso[i])
                  => i \in to_process_local

\* C21: after a run that aborted while rendering, the next completed run
\* over unchanged sources regenerates every article whose artifact was not
\* completely written: when it completes, no listed article is left with an
\* incomplete artifact.
C21_RecoveryAfterAbort ==
    (pc = "done" /\ previous = "aborted" /\ stable) =>
        \A i \in SeqIds(all_issues) \cup SeqIds(all_local_articles) :
            htmlFiles[i].state # "partial"

\* C22 as written: when run() completes, a backup O-MD/<id>.md exists only
\* for identifiers that are active issue articles.
C22_NoOrphanBackup ==
    pc = "done" => omdFiles \subseteq SeqIds(all_issues)

\* C22 amended: when run() completes, the backup of every deleted identifier
\* whose cache entry had type issue is gone, and a backup exists only for
\* identifiers that are active or whose cache entry at the start of the run
\* was absent or not of type issue (those backups are left on disk); the
\* backups written by the run belong to listed issues.
C22_IssueBackupRemoved ==
    pc = "done" =>
        /\ \A i \in to_delete :
              startCache[i].type = "issue" => i \notin omdFiles
        /\ \A i \in omdFiles : i \in ActiveIds \/ startCache[i].type # "issue"
        /\ wroteOmd \subseteq SeqIds(all_issues)

\* A first run completed that removed the backup of a deleted issue-typed
\* identifier and left behind the backup of a deleted identifier that had an
\* artifact but no cache entry.
C22_Witness ==
    /\ pc = "done" /\ runs = 1
    /\ \E i \in to_delete : startCache[i].type = "issue" /\ i \notin omdFiles
    /\ \E i \in to_delete \cap omdFiles :
          startCache[i].form = "none" /\ i \in known_from_html
====
